---- MODULE Spec2Model ----
(***************************************************************************)
(* Model of the remarks front ends:                                        *)
(*   - frontend/script.js: the download page (default-path fetch,          *)
(*     directory picker, download button, tab buttons);                    *)
(*   - frontend/Remarks/ContentView.swift: the health-check view;          *)
(*   - the job orchestrator of spec.md section 4.1 (no source available;   *)
(*     modelled from the specification text).                              *)
(* Strings that the code takes apart (trim, split) are sequences of        *)
(* tokens; a token is a one-character string or an atomic name.            *)
(***************************************************************************)
EXTENDS Integers, Sequences, FiniteSets, TLC

\* ------------------------------------------------------------------ bounds
MaxRequests == 2
MaxPickers == 1
MaxChecks == 3
MaxJobs == 2

\* ------------------------------------------------------- strings and inputs
\* Texts the user can leave in the URL field: empty, blank, two URLs, and
\* a URL with blanks around it.
UrlInputs == {<<>>, <<" ">>, <<"a">>, <<"b">>, <<" ", "a", " ">>}

\* Accounts the page may run under (process.env.USER).
Users == {"adamderstine", "bob"}

LibraryPath(user) ==
    <<"/", "Users", "/", user, "/", "Movies", "/", "remarks", "/", "library">>

\* script.js:19, the fallback written by the catch branch.
FallbackPath == LibraryPath("adamderstine")

\* Locations the user can type into the (editable) location field.
TypedLocations == {<<"/", "tmp">>}

\* webkitRelativePath values of files inside a picked directory.
RelPaths == {<<"d", "/", "f">>, <<"e", "/", "s", "/", "f">>}

\* The file lists a 'change' event may carry: none, one file, two files.
FileLists == {<<>>} \cup {<<p>> : p \in RelPaths} \cup {<<p, q>> : p, q \in RelPaths}

\* String.prototype.trim
IsSpace(c) == c = " "

RECURSIVE TrimStart(_)
TrimStart(s) ==
    IF s = <<>> THEN s
    ELSE IF IsSpace(Head(s)) THEN TrimStart(Tail(s)) ELSE s

RECURSIVE TrimEnd(_)
TrimEnd(s) ==
    IF s = <<>> THEN s
    ELSE IF IsSpace(s[Len(s)]) THEN TrimEnd(SubSeq(s, 1, Len(s) - 1)) ELSE s

\* The field's text taken as typed.
Untrimmed(s) == s

Trim(s) == TrimEnd(TrimStart(s))

\* s.split('/')[0]: the tokens before the first separator.
RECURSIVE FirstComponent(_)
FirstComponent(s) ==
    IF s = <<>> THEN <<>>
    ELSE IF Head(s) = "/" THEN <<>>
    ELSE <<Head(s)>> \o FirstComponent(Tail(s))

\* ------------------------------------------------------------ status texts
NoStatus == <<>>
PleaseEnter == <<"Please enter a video URL">>
Downloading == <<"Downloading...">>
CompleteMsg(file_path) == <<"Download complete! File saved to: ", file_path>>
FailedMsg(error) == <<"Download failed: ", error>>
ErrorMsg(message) == <<"Error: ", message>>

\* ------------------------------------------------- POST /download outcomes
FilePaths == {"f.mp4"}
ServerErrors == {"unsupported url"}
Undefined == "undefined"

Pending ==
    [kind |-> "pending", success |-> FALSE, file_path |-> Undefined, error |-> Undefined]

\* Parsed JSON bodies: an object with success/file_path/error, any of which
\* may be missing, or the JSON value null.
DataObjects ==
    {[kind |-> "data", success |-> TRUE, file_path |-> f, error |-> Undefined] :
        f \in FilePaths}
    \cup
    {[kind |-> "data", success |-> FALSE, file_path |-> Undefined, error |-> e] :
        e \in ServerErrors \cup {Undefined}}

NullData ==
    [kind |-> "null", success |-> FALSE, file_path |-> Undefined,
     error |-> "Cannot read properties of null"]

NetworkError ==
    [kind |-> "networkError", success |-> FALSE, file_path |-> Undefined,
     error |-> "Failed to fetch"]

ParseError ==
    [kind |-> "parseError", success |-> FALSE, file_path |-> Undefined,
     error |-> "Unexpected token"]

VARIABLES
    USER,             \* process.env.USER
    downloadLocation, \* downloadLocationInput.value
    videoUrl,         \* videoUrlInput.value
    status,           \* statusDiv.textContent
    defaultFetch,     \* the GET /default-path promise chain
    openPickers,      \* directory pickers whose dialog is open
    requests,         \* the POST /download calls, in the order issued
    active,           \* tab buttons carrying the class 'active'
    entered,          \* the location the user last typed or picked, if any
    lastClicked,      \* the tab button clicked last, if any
    appeared,         \* ContentView: onAppear has run
    message,          \* ContentView: @State message
    tasks,            \* ContentView: the data tasks checkAPI started, in order
    mainQueue,        \* ContentView: blocks waiting on DispatchQueue.main
    jobs,             \* orchestrator: the jobs, by id
    registry          \* orchestrator: (target, kind) -> id of the active job

webVars ==
    <<USER, downloadLocation, videoUrl, status, defaultFetch, openPickers,
      requests, active, entered, lastClicked>>

viewVars == <<appeared, message, tasks, mainQueue>>

jobVars == <<jobs, registry>>

vars == <<webVars, viewVars, jobVars>>

\* The tab buttons of the page (Download, Transcribe, Edit).
TabButtons == {"Download", "Transcribe", "Edit"}

\* --------------------------------------------------------------- script.js
\* State when the DOMContentLoaded handler has returned: the default-path
\* request is in flight, the location field is editable and still holds
\* its markup value (empty), no listener has run yet.
WebInit(users, tabSets) ==
    /\ USER \in users
    /\ downloadLocation = <<>>
    /\ videoUrl = <<>>
    /\ status = NoStatus
    /\ defaultFetch = "fetch"
    /\ openPickers = 0
    /\ requests = <<>>
    /\ active \in tabSets
    /\ entered = {}
    /\ lastClicked = {}

\* script.js:2, the running user's library path (computed, never read).
defaultPath == LibraryPath(USER)

\* The path GET /default-path answers with for the running user.
ServerPaths == {LibraryPath(USER)}

\* fetch('/default-path') resolves; response.json() starts.
DefaultPathResponse ==
    /\ defaultFetch = "fetch"
    /\ defaultFetch' = "json"
    /\ UNCHANGED <<USER, downloadLocation, videoUrl, status, openPickers,
                   requests, active, entered, lastClicked>>
    /\ UNCHANGED <<viewVars, jobVars>>

\* .then(data => { downloadLocationInput.value = data.path; })
DefaultPathLoaded(path) ==
    /\ defaultFetch = "json"
    /\ defaultFetch' = "done"
    /\ downloadLocation' = path
    /\ UNCHANGED <<USER, videoUrl, status, openPickers, requests, active,
                   entered, lastClicked>>
    /\ UNCHANGED <<viewVars, jobVars>>

\* .catch(error => { ...value = '/Users/adamderstine/Movies/remarks/library' })
\* reached when the fetch rejects or the body does not parse.
DefaultPathFailed ==
    /\ defaultFetch \in {"fetch", "json"}
    /\ defaultFetch' = "failed"
    /\ downloadLocation' = FallbackPath
    /\ UNCHANGED <<USER, videoUrl, status, openPickers, requests, active,
                   entered, lastClicked>>
    /\ UNCHANGED <<viewVars, jobVars>>

\* The user edits the URL field.
TypeUrl(s) ==
    /\ videoUrl' = s
    /\ UNCHANGED <<USER, downloadLocation, status, defaultFetch, openPickers,
                   requests, active, entered, lastClicked>>
    /\ UNCHANGED <<viewVars, jobVars>>

\* The user edits the location field (readonly was removed at load).
TypeLocation(s) ==
    /\ downloadLocation' = s
    /\ entered' = {s}
    /\ UNCHANGED <<USER, videoUrl, status, defaultFetch, openPickers,
                   requests, active, lastClicked>>
    /\ UNCHANGED <<viewVars, jobVars>>

\* browseButton click: a new directory picker is created and opened.
BrowseClick ==
    /\ openPickers < MaxPickers
    /\ openPickers' = openPickers + 1
    /\ UNCHANGED <<USER, downloadLocation, videoUrl, status, defaultFetch,
                   requests, active, entered, lastClicked>>
    /\ UNCHANGED <<viewVars, jobVars>>

\* The whole relative path of the first file, or nothing when no file came.
PickedWholePath(files, current) ==
    IF Len(files) > 0 THEN files[1] ELSE <<>>

\* The location a 'change' event with these files leaves in the field.
PickedLocation(files, current) ==
    IF Len(files) > 0 THEN FirstComponent(files[1]) ELSE current

\* dirPicker 'change' listener.
PickerChange(files) ==
    /\ openPickers > 0
    /\ openPickers' = openPickers - 1
    /\ downloadLocation' = PickedLocation(files, downloadLocation)
    /\ entered' = IF Len(files) > 0 THEN {downloadLocation'} ELSE entered
    /\ UNCHANGED <<USER, videoUrl, status, defaultFetch, requests, active,
                   lastClicked>>
    /\ UNCHANGED <<viewVars, jobVars>>

\* The dialog is dismissed: no 'change' event.
PickerCancel ==
    /\ openPickers > 0
    /\ openPickers' = openPickers - 1
    /\ UNCHANGED <<USER, downloadLocation, videoUrl, status, defaultFetch,
                   requests, active, entered, lastClicked>>
    /\ UNCHANGED <<viewVars, jobVars>>

\* downloadButton click, up to the first await.
DownloadClick ==
    LET url == Trim(videoUrl) IN
    /\ UNCHANGED <<viewVars, jobVars>>
    /\ IF url = <<>>
       THEN /\ status' = PleaseEnter
            /\ UNCHANGED <<USER, downloadLocation, videoUrl, defaultFetch,
                           openPickers, requests, active, entered, lastClicked>>
       ELSE /\ Len(requests) < MaxRequests
            /\ status' = Downloading
            /\ requests' = Append(requests,
                   [url |-> url, download_dir |-> downloadLocation,
                    wanted |-> entered, pc |-> "fetch", outcome |-> Pending])
            /\ UNCHANGED <<USER, downloadLocation, videoUrl, defaultFetch,
                           openPickers, active, entered, lastClicked>>

\* The text the handler writes when its request has settled with outcome o.
SettleStatus(o) ==
    IF o.kind = "data"
    THEN IF o.success THEN CompleteMsg(o.file_path) ELSE FailedMsg(o.error)
    ELSE ErrorMsg(o.error)

Settle(i, o) ==
    /\ requests' = [requests EXCEPT ![i].pc = "done", ![i].outcome = o]
    /\ status' = SettleStatus(o)
    /\ UNCHANGED <<USER, downloadLocation, videoUrl, defaultFetch,
                   openPickers, active, entered, lastClicked>>
    /\ UNCHANGED <<viewVars, jobVars>>

\* await fetch(...) resolves with a response; response.json() starts.
FetchResolve(i) ==
    /\ requests[i].pc = "fetch"
    /\ requests' = [requests EXCEPT ![i].pc = "json"]
    /\ UNCHANGED <<USER, downloadLocation, videoUrl, status, defaultFetch,
                   openPickers, active, entered, lastClicked>>
    /\ UNCHANGED <<viewVars, jobVars>>

\* await fetch(...) rejects: the catch block runs.
FetchReject(i) ==
    /\ requests[i].pc = "fetch"
    /\ Settle(i, NetworkError)
 
\* await response.json() resolves with an object: lines 71-75.
JsonResolve(i, data) ==
    /\ requests[i].pc = "json"
    /\ Settle(i, data)

\* await response.json() resolves with null: data.success throws a
\* TypeError inside the try, the catch block runs.
JsonNull(i) ==
    /\ requests[i].pc = "json"
    /\ Settle(i, NullData)

\* await response.json() rejects: the catch block runs.
JsonReject(i) ==
    /\ requests[i].pc = "json"
    /\ Settle(i, ParseError)

\* A listener that marks the clicked button and clears no other.
TabClickAddOnly(button) ==
    /\ active' = active \cup {button}
    /\ lastClicked' = {button}
    /\ UNCHANGED <<USER, downloadLocation, videoUrl, status, defaultFetch,
                   openPickers, requests, entered>>
    /\ UNCHANGED <<viewVars, jobVars>>

\* tab button click listener.
TabClick(button) ==
    /\ active' = (active \ TabButtons) \cup {button}
    /\ lastClicked' = {button}
    /\ UNCHANGED <<USER, downloadLocation, videoUrl, status, defaultFetch,
                   openPickers, requests, entered>>
    /\ UNCHANGED <<viewVars, jobVars>>

\* The download flow: the URL field, the download button and its requests,
\* beside the default-path fetch that fills the location the button reads.
DownloadNext ==
    \/ DefaultPathResponse
    \/ \E p \in ServerPaths : DefaultPathLoaded(p)
    \/ DefaultPathFailed
    \/ \E s \in UrlInputs : TypeUrl(s)
    \/ DownloadClick
    \/ \E i \in DOMAIN requests : FetchResolve(i)
    \/ \E i \in DOMAIN requests : FetchReject(i)
    \/ \E i \in DOMAIN requests : \E d \in DataObjects : JsonResolve(i, d)
    \/ \E i \in DOMAIN requests : JsonNull(i)
    \/ \E i \in DOMAIN requests : JsonReject(i)

\* The location field: the default-path fetch, typing, the directory picker,
\* and the download button that reads the field.
LocationNext ==
    \/ DefaultPathResponse
    \/ \E p \in ServerPaths : DefaultPathLoaded(p)
    \/ DefaultPathFailed
    \/ \E s \in TypedLocations : TypeLocation(s)
    \/ BrowseClick
    \/ \E files \in FileLists : PickerChange(files)
    \/ PickerCancel
    \/ \E s \in UrlInputs : TypeUrl(s)
    \/ DownloadClick

\* The tab buttons, with the page's other synchronous listeners.
TabNext ==
    \/ \E b \in TabButtons : TabClick(b)
    \/ \E s \in UrlInputs : TypeUrl(s)
    \/ \E s \in TypedLocations : TypeLocation(s)
    \/ BrowseClick
    \/ \E files \in FileLists : PickerChange(files)
    \/ PickerCancel

\* ------------------------------------------------------- ContentView.swift
Loading == <<"Loading...">>
ApiStatus(s) == <<"API Status: ", s>>

\* Values of HealthResponse.status the server may send.
HealthStatuses == {"ok", "degraded"}

\* What a data task hands its completion handler: no data (transport
\* error), a body that does not decode, or a decodable body.
NoData == [data |-> FALSE, decodes |-> FALSE, status |-> "none"]
BadBody == [data |-> TRUE, decodes |-> FALSE, status |-> "none"]
Decodable(s) == [data |-> TRUE, decodes |-> TRUE, status |-> s]
TaskResults == {NoData, BadBody} \cup {Decodable(s) : s \in HealthStatuses}

ViewInit ==
    /\ appeared = FALSE
    /\ message = Loading
    /\ tasks = <<>>
    /\ mainQueue = <<>>

\* checkAPI(): the URL literal always parses, a data task is started.
CheckAPI ==
    /\ Len(tasks) < MaxChecks
    /\ tasks' = Append(tasks, [state |-> "running", result |-> NoData])
    /\ UNCHANGED <<message, mainQueue>>

\* .onAppear { checkAPI() }
OnAppear ==
    /\ ~appeared
    /\ appeared' = TRUE
    /\ CheckAPI
    /\ UNCHANGED <<webVars, jobVars>>

\* Button("Check API") { checkAPI() }
ButtonPress ==
    /\ appeared
    /\ UNCHANGED appeared
    /\ CheckAPI
    /\ UNCHANGED <<webVars, jobVars>>

\* A completion handler that also reports a failed check.
AfterCompletionReportingFailure(queue, i, r) ==
    Append(queue, [task |-> i,
                   text |-> IF r.data /\ r.decodes THEN ApiStatus(r.status)
                            ELSE <<"API unreachable">>])

\* The blocks the completion handler leaves on the main queue.
AfterCompletion(queue, i, r) ==
    IF r.data /\ r.decodes
    THEN Append(queue, [task |-> i, text |-> ApiStatus(r.status)])
    ELSE queue

\* The data task's completion handler (URLSession's delegate queue).
TaskComplete(i, r) ==
    /\ tasks[i].state = "running"
    /\ tasks' = [tasks EXCEPT ![i] = [state |-> "completed", result |-> r]]
    /\ mainQueue' = AfterCompletion(mainQueue, i, r)
    /\ UNCHANGED <<appeared, message>>
    /\ UNCHANGED <<webVars, jobVars>>

\* DispatchQueue.main runs its next block: self.message = "API Status: ..."
MainRun ==
    /\ mainQueue # <<>>
    /\ message' = Head(mainQueue).text
    /\ mainQueue' = Tail(mainQueue)
    /\ UNCHANGED <<appeared, tasks>>
    /\ UNCHANGED <<webVars, jobVars>>

ViewNext ==
    \/ OnAppear
    \/ ButtonPress
    \/ \E i \in DOMAIN tasks : \E r \in TaskResults : TaskComplete(i, r)
    \/ MainRun

\* ------------------------------------------- job orchestrator (spec.md 4.1)
Targets == {"t1", "t2"}
EmptyTarget == ""
Kinds == {"download", "download+transcribe"}

\* The pipeline stages of a job kind, in order.
Stages(kind) ==
    IF kind = "download" THEN <<"download">>
    ELSE <<"download", "extract-audio", "transcribe">>

Terminal == {"succeeded", "failed", "cancelled"}
ErrorKinds == {"DownloadRejected", "Timeout"}

JobInit ==
    /\ jobs = <<>>
    /\ registry = [k \in {} |-> 0]

Release(reg, id) == [k \in {x \in DOMAIN reg : reg[x] # id} |-> reg[k]]

\* submit(target, kind): InvalidTarget for an empty target; the id of the
\* active job of the pair if there is one; else a new pending job.
Submit(target, kind) ==
    /\ target # EmptyTarget
    /\ <<target, kind>> \notin DOMAIN registry
    /\ Len(jobs) < MaxJobs
    /\ jobs' = Append(jobs,
            [target |-> target, kind |-> kind, status |-> "pending", stage |-> 0,
             cancelRequested |-> FALSE, error |-> "none"])
    /\ registry' = [k \in DOMAIN registry \cup {<<target, kind>>} |->
                        IF k = <<target, kind>> THEN Len(jobs) + 1 ELSE registry[k]]
    /\ UNCHANGED <<webVars, viewVars>>

\* submit of an empty target, or of a pair with an active job: nothing is
\* created.
SubmitNoop(target, kind) ==
    /\ target = EmptyTarget \/ <<target, kind>> \in DOMAIN registry
    /\ UNCHANGED <<jobs, registry>>
    /\ UNCHANGED <<webVars, viewVars>>

\* The worker picks the job up: the first stage starts, unless cancellation
\* was requested before.
Start(id) ==
    /\ jobs[id].status = "pending"
    /\ IF jobs[id].cancelRequested
       THEN /\ jobs' = [jobs EXCEPT ![id].status = "cancelled", ![id].error = "Cancelled"]
            /\ registry' = Release(registry, id)
       ELSE /\ jobs' = [jobs EXCEPT ![id].status = "running", ![id].stage = 1]
            /\ UNCHANGED registry
    /\ UNCHANGED <<webVars, viewVars>>

\* Stage-completion callback at a safe checkpoint: cancelled if the flag is
\* set, else the next stage, or succeeded after the last one.
StageComplete(id) ==
    /\ jobs[id].status = "running"
    /\ IF jobs[id].cancelRequested
       THEN /\ jobs' = [jobs EXCEPT ![id].status = "cancelled", ![id].error = "Cancelled"]
            /\ registry' = Release(registry, id)
       ELSE IF jobs[id].stage = Len(Stages(jobs[id].kind))
       THEN /\ jobs' = [jobs EXCEPT ![id].status = "succeeded"]
            /\ registry' = Release(registry, id)
       ELSE /\ jobs' = [jobs EXCEPT ![id].stage = @ + 1]
            /\ UNCHANGED registry
    /\ UNCHANGED <<webVars, viewVars>>

\* A stage fails (or times out): the job fails with the error recorded.
StageFail(id, err) ==
    /\ jobs[id].status = "running"
    /\ jobs' = [jobs EXCEPT ![id].status = "failed", ![id].error = err]
    /\ registry' = Release(registry, id)
    /\ UNCHANGED <<webVars, viewVars>>

\* A cancel that publishes 'cancelled' at once, whatever the job's status.
CancelForcibly(id) ==
    /\ ~jobs[id].cancelRequested
    /\ jobs' = [jobs EXCEPT ![id].cancelRequested = TRUE,
                            ![id].status = "cancelled"]
    /\ registry' = Release(registry, id)
    /\ UNCHANGED <<webVars, viewVars>>

\* cancel(job_id): sets the cooperative cancellation flag only.
Cancel(id) ==
    /\ ~jobs[id].cancelRequested
    /\ jobs' = [jobs EXCEPT ![id].cancelRequested = TRUE]
    /\ UNCHANGED registry
    /\ UNCHANGED <<webVars, viewVars>>

JobNext ==
    \/ \E t \in Targets : \E k \in Kinds : Submit(t, k)
    \/ \E t \in Targets \cup {EmptyTarget} : \E k \in Kinds : SubmitNoop(t, k)
    \/ \E id \in DOMAIN jobs : Start(id)
    \/ \E id \in DOMAIN jobs : StageComplete(id)
    \/ \E id \in DOMAIN jobs : \E e \in ErrorKinds : StageFail(id, e)
    \/ \E id \in DOMAIN jobs : Cancel(id)

\* ---------------------------------------------------------- specifications
\* The page as loaded for one account with the first tab marked active.
PlainPage == WebInit({"bob"}, {{"Download"}})

\* script.js, the download flow.
DownloadInit == PlainPage /\ ViewInit /\ JobInit
Spec == DownloadInit /\ [][DownloadNext]_vars

\* script.js, the location field, for every account.
PageInit == WebInit(Users, {{"Download"}}) /\ ViewInit /\ JobInit
SpecPage == PageInit /\ [][LocationNext]_vars

\* script.js, the tab buttons, for every initial marking of the buttons.
TabsInit == WebInit({"bob"}, SUBSET TabButtons) /\ ViewInit /\ JobInit
SpecTabs == TabsInit /\ [][TabNext]_vars

\* ContentView.swift.
SpecView == DownloadInit /\ [][ViewNext]_vars

\* The job orchestrator.
SpecJobs == DownloadInit /\ [][JobNext]_vars

\* ------------------------------------------------------------------ claims
InFlight(i) == requests[i].pc # "done"

IsBlank(s) == \A k \in 1..Len(s) : s[k] = " "

\* C1: at most one download is active per target: two requests for the
\* same URL are never in flight together (a second click on the same URL
\* while the first request is unsettled sends no new request).
C1_OneActivePerTarget ==
    \A i, j \in DOMAIN requests :
        (InFlight(i) /\ InFlight(j) /\ requests[i].url = requests[j].url) => i = j

\* C2: a click on the download button while the URL field is empty or
\* blank sends no request and sets the status to 'Please enter a video
\* URL' (so never to 'Downloading...'); and no request carries an empty URL.
C2_EmptyUrlRejected ==
    /\ [](\A i \in DOMAIN requests : requests[i].url # <<>>)
    /\ [][(IsBlank(videoUrl) /\ DownloadClick) =>
            (requests' = requests /\ status' = PleaseEnter)]_vars

\* C2 witness: the field holds blanks only, the click was rejected, and an
\* earlier submission with a real URL exists.
C2_Witness ==
    /\ videoUrl # <<>> /\ IsBlank(videoUrl)
    /\ status = PleaseEnter
    /\ requests # <<>>

Settles(i) == requests[i].pc # "done" /\ requests'[i].pc = "done"

\* What every settling request shows: never 'Downloading...', the success
\* text exactly when the body reports success, else a failure text whose
\* description is the body's error field or the exception's message.
SettleShowsOutcome ==
    [][\A i \in DOMAIN requests : Settles(i) =>
        LET o == requests'[i].outcome IN
        /\ status' # Downloading
        /\ IF o.kind = "data" /\ o.success
           THEN status' = CompleteMsg(o.file_path)
           ELSE /\ status'[1] \in {"Download failed: ", "Error: "}
                /\ status'[2] = o.error]_vars

\* C3: no silent failure: when a request settles the status leaves
\* 'Downloading...'; it is the success text only for a body that reports
\* success, and for every other outcome a failure text that names the error.
C3_NoSilentFailure ==
    [][\A i \in DOMAIN requests : Settles(i) =>
        LET o == requests'[i].outcome IN
        /\ status' # Downloading
        /\ IF o.kind = "data" /\ o.success
           THEN status' = CompleteMsg(o.file_path)
           ELSE /\ status'[1] \in {"Download failed: ", "Error: "}
                /\ status'[2] # Undefined]_vars

\* C4: the download_dir of every request is the location the user had last
\* typed or picked when the button was clicked, if the user had entered one.
C4_SentDirIsUserChoice ==
    \A i \in DOMAIN requests :
        requests[i].wanted # {} => requests[i].download_dir \in requests[i].wanted

\* C5: when the default-path request has settled (either way) and the user
\* has entered no location, the field holds the library path under the
\* running user's home directory.
C5_DefaultIsOwnLibrary ==
    (entered = {} /\ defaultFetch \in {"done", "failed"}) =>
        downloadLocation = defaultPath

SettleTexts ==
    {CompleteMsg(f) : f \in FilePaths}
    \cup {FailedMsg(e) : e \in ServerErrors \cup {Undefined}}
    \cup {ErrorMsg(o.error) : o \in {NullData, NetworkError, ParseError}}

\* C6: once every issued download request has completed, a status that
\* shows a request's outcome shows the outcome of the request issued last.
C6_LatestRequestWins ==
    (requests # <<>> /\ (\A i \in DOMAIN requests : ~InFlight(i))
        /\ status \in SettleTexts)
    => status = SettleStatus(requests[Len(requests)].outcome)

\* The same statement for ContentView: once every health check has
\* completed decodably and the main queue is drained, the message is the
\* status of the check started last.
LatestCheckWins ==
    (tasks # <<>> /\ mainQueue = <<>>
        /\ \A i \in DOMAIN tasks :
              tasks[i].state = "completed" /\ tasks[i].result.decodes)
    => message = ApiStatus(tasks[Len(tasks)].result.status)

\* C7: job status is monotonic: a job that is succeeded, failed or
\* cancelled keeps that status in every later step (stage completion,
\* cancel, submission of the same target).
C7_TerminalIsFinal ==
    [][\A id \in DOMAIN jobs :
        jobs[id].status \in Terminal => jobs'[id].status = jobs[id].status]_vars

\* C7 witness: a succeeded job on which cancel was requested afterwards,
\* and a later job submitted for the same target and kind.
C7_Witness ==
    \E id, later \in DOMAIN jobs :
        /\ id < later
        /\ jobs[id].status = "succeeded" /\ jobs[id].cancelRequested
        /\ jobs[later].target = jobs[id].target
        /\ jobs[later].kind = jobs[id].kind

Failed(r) == ~(r.data /\ r.decodes)

\* C8: a health check that fails, returns no data or returns an
\* undecodable body leaves the message (and the main queue) unchanged; and
\* while no completed check was decodable the message is 'Loading...'.
C8_FailedCheckLeavesMessage ==
    /\ []((\A i \in DOMAIN tasks :
              tasks[i].state = "completed" => Failed(tasks[i].result))
          => (message = Loading /\ mainQueue = <<>>))
    /\ [][\A i \in DOMAIN tasks :
            (tasks[i].state = "running" /\ tasks'[i].state = "completed"
                /\ Failed(tasks'[i].result))
            => (message' = message /\ mainQueue' = mainQueue)]_vars

\* C8 witness: several checks were started, all have completed, one without
\* data and one with an undecodable body, and the message is 'Loading...'.
C8_Witness ==
    /\ Len(tasks) >= 2
    /\ \A i \in DOMAIN tasks : tasks[i].state = "completed"
    /\ \E i, j \in DOMAIN tasks : tasks[i].result = NoData /\ tasks[j].result = BadBody
    /\ message = Loading

\* C9: after any click on a tab button exactly one button is active, and
\* it is the one clicked last.
C9_OneActiveTab ==
    lastClicked # {} => (active = lastClicked /\ Cardinality(active) = 1)

\* C9 witness: 'Edit' was clicked last and is the only active button.
C9_Witness == lastClicked = {"Edit"} /\ active = {"Edit"}

\* p is the relative path of a file inside the folder named name.
IsFolderOf(name, p) ==
    /\ name # <<>>
    /\ \A k \in 1..Len(name) : name[k] # "/"
    /\ Len(p) > Len(name)
    /\ SubSeq(p, 1, Len(name)) = name
    /\ p[Len(name) + 1] = "/"

\* C10: a 'change' event of the directory picker with no file leaves the
\* location unchanged, one with files sets it to the folder name of the
\* first file's relative path; neither changes the URL field or the status.
C10_PickerSetsFolderName ==
    [][openPickers' < openPickers =>
        \A files \in FileLists : PickerChange(files) =>
            /\ videoUrl' = videoUrl
            /\ status' = status
            /\ IF Len(files) = 0
               THEN downloadLocation' = downloadLocation
               ELSE IsFolderOf(downloadLocation', files[1])]_vars

\* C10 witness: the folder 'e' of e/s/f was picked while a download was
\* under way and the default path had already loaded.
C10_Witness ==
    /\ downloadLocation = <<"e">>
    /\ entered = {<<"e">>}
    /\ status = Downloading
    /\ defaultFetch = "done"

====
